---- MODULE Spec2Model ----
(***************************************************************************)
(* Model of server.js of TextSummarizer: the POST /api/summarize handler   *)
(* (JSON text path and multipart upload path), getSummaryFromAI and        *)
(* mockSummarization.                                                      *)
(*                                                                         *)
(* Strings.  A JavaScript string is a sequence of runs <<tok, n>>: the     *)
(* character sequence tok repeated n times (n >= 1).  "aaa. " is           *)
(* << <<<<"a">>,3>>, <<<<".">>,1>>, <<<<" ">>,1>> >>.  All characters of   *)
(* one tok belong to one class (terminator . ! ?, whitespace, or other),   *)
(* so a run has the class of its first character.  Lengths, trim,          *)
(* substring, the sentence regex and the script-block regex are computed   *)
(* on runs exactly as the JavaScript computes them on characters.          *)
(***************************************************************************)
EXTENDS Integers, Sequences, FiniteSets, TLC

VARIABLES
    apiKey,      \* the process-wide credential (line 20)
    pc,          \* position of the request handler
    path,        \* "json" | "file" | "none": which branch of the handler runs
    body,        \* req.body of a JSON request: [text, language, summaryLength]
    responses,   \* every res.status(..).json(..) / res.json(..) call of the request
    ai,          \* the current getSummaryFromAI call: arguments, outcome, result
    mp,          \* busboy closure state of the multipart branch
    mock         \* direct call of mockSummarization: input and returned value

vars == <<apiKey, pc, path, body, responses, ai, mp, mock>>

(***************************************************************************)
(* String primitives                                                       *)
(***************************************************************************)
Terminators == {".", "!", "?"}
Whitespace == {" ", "\n", "\t"}

IsTermRun(r) == r[1][1] \in Terminators
IsSpaceRun(r) == r[1][1] \in Whitespace
RunLen(r) == Len(r[1]) * r[2]

\* s.length
RECURSIVE StrLen(_)
StrLen(s) == IF s = <<>> THEN 0 ELSE RunLen(Head(s)) + StrLen(Tail(s))

RECURSIVE TrimLeft(_)
TrimLeft(s) == IF s # <<>> /\ IsSpaceRun(Head(s)) THEN TrimLeft(Tail(s)) ELSE s

RECURSIVE TrimRight(_)
TrimRight(s) ==
    IF s # <<>> /\ IsSpaceRun(s[Len(s)]) THEN TrimRight(SubSeq(s, 1, Len(s) - 1)) ELSE s

\* s.trim()
Trim(s) == TrimRight(TrimLeft(s))

\* s.substring(0, k)
RECURSIVE Substring(_, _)
Substring(s, k) ==
    IF s = <<>> \/ k <= 0 THEN <<>>
    ELSE LET r == Head(s) IN
         IF RunLen(r) <= k THEN <<r>> \o Substring(Tail(s), k - RunLen(r))
         ELSE LET w == Len(r[1])
                  q == k \div w
                  m == k % w
              IN (IF q > 0 THEN << <<r[1], q>> >> ELSE <<>>)
                 \o (IF m > 0 THEN << <<SubSeq(r[1], 1, m), 1>> >> ELSE <<>>)

\* parts.join(' ')
RECURSIVE Join(_)
Join(parts) ==
    IF parts = <<>> THEN <<>>
    ELSE IF Len(parts) = 1 THEN parts[1]
    ELSE parts[1] \o << << <<" ">>, 1 >> >> \o Join(Tail(parts))

\* arr.filter(s => s.length > 0)
RECURSIVE FilterNonEmpty(_)
FilterNonEmpty(parts) ==
    IF parts = <<>> THEN <<>>
    ELSE (IF StrLen(Head(parts)) > 0 THEN <<Head(parts)>> ELSE <<>>)
         \o FilterNonEmpty(Tail(parts))

\* [...new Set(indices)]: the first occurrence of each value, in insertion order
RECURSIVE Dedup(_)
Dedup(xs) ==
    IF xs = <<>> THEN <<>>
    ELSE LET init == Dedup(SubSeq(xs, 1, Len(xs) - 1))
             x == xs[Len(xs)]
         IN IF \E i \in DOMAIN init : init[i] = x THEN init ELSE Append(init, x)

(***************************************************************************)
(* mockSummarization (lines 229-301)                                       *)
(***************************************************************************)
\* text.match(/[^\.!?]+[\.!?]+/g): the successive leftmost matches.  A match
\* is a maximal stretch of non-terminators followed by a maximal stretch of
\* terminators; terminators before the first non-terminator and a trailing
\* stretch without terminator belong to no match.  cur is the match being
\* built, inTerm tells whether its terminators have begun.
RECURSIVE MatchFrom(_, _, _, _)
MatchFrom(s, cur, inTerm, acc) ==
    IF s = <<>> THEN (IF inTerm THEN Append(acc, cur) ELSE acc)
    ELSE LET r == Head(s) IN
         IF IsTermRun(r)
         THEN IF cur = <<>> THEN MatchFrom(Tail(s), <<>>, FALSE, acc)
              ELSE MatchFrom(Tail(s), Append(cur, r), TRUE, acc)
         ELSE IF inTerm THEN MatchFrom(Tail(s), <<r>>, FALSE, Append(acc, cur))
              ELSE MatchFrom(Tail(s), Append(cur, r), FALSE, acc)

MatchSentences(text) == MatchFrom(text, <<>>, FALSE, <<>>)

\* text.match(...) || [text]
Sentences(text) ==
    LET m == MatchSentences(text) IN IF m = <<>> THEN <<text>> ELSE m

\* lengthLimit of the truncation branch (lines 235-247)
LengthLimit(summaryLength) ==
    CASE summaryLength = "short" -> 100
      [] summaryLength = "long" -> 400
      [] OTHER -> 200

\* maxLength of the final cut (lines 282-294)
MaxLength(summaryLength) ==
    CASE summaryLength = "short" -> 150
      [] summaryLength = "long" -> 500
      [] OTHER -> 300

Ellipsis == << << <<".">>, 3 >> >>

SentinelMessage ==
    << << <<"S", "u", "m", "m", "a", "r", "y", " ", "c", "o", "u", "l", "d", " ",
             "n", "o", "t", " ", "b", "e", " ", "g", "e", "n", "e", "r", "a", "t",
             "e", "d", " ", "f", "r", "o", "m", " ", "t", "h", "e", " ", "p", "r",
             "o", "v", "i", "d", "e", "d", " ", "t", "e", "x", "t", ".">>, 1 >> >>

\* sentences[i] ? sentences[i].trim() : ''   (i is a 0-based index)
TrimmedAt(sentences, i) ==
    IF i + 1 \in DOMAIN sentences /\ StrLen(sentences[i + 1]) > 0
    THEN Trim(sentences[i + 1]) ELSE <<>>

\* indices of the long tier (lines 261-262)
LongIndices(n) == <<0, n \div 4, n \div 2, (3 * n) \div 4, n - 1>>

\* mutant: the indices are used without deduplication
LongPicks_NoDedup(n) == LongIndices(n)

\* [...new Set(indices)] (line 263)
LongPicks(n) == Dedup(LongIndices(n))

\* first, middle, last of the medium tier (lines 271-273)
MediumPicks(n) == <<0, n \div 2, n - 1>>

\* sentences[0] of the short tier (line 257)
ShortPicks(n) == <<0>>

\* the positions the tier reads, in the order the code reads them
Picks(n, summaryLength) ==
    CASE summaryLength = "short" -> ShortPicks(n)
      [] summaryLength = "long" -> LongPicks(n)
      [] OTHER -> MediumPicks(n)

\* the switch of lines 254-279
Selected(sentences, summaryLength) ==
    LET picks == Picks(Len(sentences), summaryLength)
        parts == [k \in DOMAIN picks |-> TrimmedAt(sentences, picks[k])]
    IN IF summaryLength = "short" THEN parts[1] ELSE Join(FilterNonEmpty(parts))

\* mutant: the final cut is left out
FinalCut_None(summary, summaryLength) == summary

\* lines 296-298
FinalCut(summary, summaryLength) ==
    IF StrLen(summary) > MaxLength(summaryLength)
    THEN Substring(summary, MaxLength(summaryLength)) \o Ellipsis
    ELSE summary

\* summary || '...'  (line 300)
OrSentinel(summary) == IF StrLen(summary) = 0 THEN SentinelMessage ELSE summary

\* line 248
Truncation(text, summaryLength) ==
    Substring(text, LengthLimit(summaryLength))
    \o (IF StrLen(text) > LengthLimit(summaryLength) THEN Ellipsis ELSE <<>>)

mockSummarization(text, language, summaryLength) ==
    LET sentences == Sentences(text) IN
    IF Len(sentences) <= 3
    THEN Truncation(text, summaryLength)
    ELSE OrSentinel(FinalCut(Selected(sentences, summaryLength), summaryLength))

(***************************************************************************)
(* JSON values, responses                                                  *)
(***************************************************************************)
Undefined == "<undefined>"

JUndefined == [t |-> "undefined", n |-> 0, v |-> <<>>]
JNumber(k) == [t |-> "number", n |-> k, v |-> <<>>]
JString(s) == [t |-> "string", n |-> 0, v |-> s]

\* !value
Falsy(val) ==
    \/ val.t = "undefined"
    \/ val.t = "number" /\ val.n = 0
    \/ val.t = "string" /\ StrLen(val.v) = 0

\* a default parameter value applies to undefined only (lines 158, 229)
Default(val, dflt) == IF val = Undefined THEN dflt ELSE val

\* res.status(status).json({ error: text + detail }); detail is the part of
\* the message that is taken from an exception ("" when there is none)
ErrorResponse(status, text, detail) ==
    [status |-> status, kind |-> "error", text |-> text, detail |-> detail,
     summary |-> <<>>]

\* res.json({ summary })
SummaryResponse(summary) ==
    [status |-> 200, kind |-> "summary", text |-> "", detail |-> "",
     summary |-> summary]

MsgNoText == "No text provided for summarization"
MsgNotString == "Text must be a string"
MsgTooShort == "Please provide at least 50 characters for meaningful summarization"
MsgTooLong == "Text is too long. Maximum length is 10,000 characters."
MsgFileTooLarge == "File too large. Maximum size is 10MB."
MsgNoFile == "No file uploaded"
MsgUnsupported == "Unsupported file format. Supported formats: PDF, DOCX, TXT"
MsgFileTooShort ==
    "File does not contain enough text to summarize (minimum 50 characters)"
MsgUploadError == "Error processing file upload: "
MsgFileError == "Error processing file: "
MsgInternal == "Internal server error"

(***************************************************************************)
(* The text branch of the handler (lines 120-149)                          *)
(***************************************************************************)
ScriptOpen ==
    { <<"<", "s", "c", "r", "i", "p", "t", ">">>,
      <<"<", "S", "C", "R", "I", "P", "T", ">">> }
ScriptClose ==
    { <<"<", "/", "s", "c", "r", "i", "p", "t", ">">>,
      <<"<", "/", "S", "C", "R", "I", "P", "T", ">">> }

IsOpenTag(r) == r[1] \in ScriptOpen
IsCloseTag(r) == r[1] \in ScriptClose

\* text.replace(/<script\b[^<]*(?:(?!<\/script>)<[^<]*)*<\/script>/gi, ''):
\* every stretch from an opening script tag to the first closing script tag
\* after it is removed, left to right; an opening tag that no closing tag
\* follows stays.
RECURSIVE Sanitize(_)
Sanitize(s) ==
    IF s = <<>> THEN <<>>
    ELSE IF IsOpenTag(Head(s)) /\ \E j \in 2..Len(s) : IsCloseTag(s[j])
    THEN LET j == CHOOSE i \in 2..Len(s) :
                      IsCloseTag(s[i]) /\ \A k \in 2..(i - 1) : ~IsCloseTag(s[k])
             left == IF s[j][2] > 1 THEN << <<s[j][1], s[j][2] - 1>> >> ELSE <<>>
         IN Sanitize(left \o SubSeq(s, j + 1, Len(s)))
    ELSE <<Head(s)>> \o Sanitize(Tail(s))

\* mutant: the length is taken without trimming
TooShort_Untrimmed(sanitizedText) == StrLen(sanitizedText) < 50

\* line 139
TooShort(sanitizedText) == StrLen(Trim(sanitizedText)) < 50

\* mutant: the limit is off by one
TooLong_OffByOne(sanitizedText) == StrLen(sanitizedText) > 10001

\* line 143
TooLong(sanitizedText) == StrLen(sanitizedText) > 10000

\* lines 128-145: the rejection the text branch answers with, or "none"
TextRejection(text) ==
    IF Falsy(text) THEN MsgNoText
    ELSE IF text.t # "string" THEN MsgNotString
    ELSE IF TooShort(Sanitize(text.v)) THEN MsgTooShort
    ELSE IF TooLong(Sanitize(text.v)) THEN MsgTooLong
    ELSE "none"

(***************************************************************************)
(* getSummaryFromAI (lines 158-226)                                        *)
(***************************************************************************)
\* mutant: the credential check is left out
NoCredential_Never(key) == FALSE

\* line 160
NoCredential(key) == key = ""

\* lines 166-178
MaxTokens(summaryLength) ==
    CASE summaryLength = "short" -> 100
      [] summaryLength = "long" -> 400
      [] OTHER -> 200

\* What the remote endpoint can do with one request.  net: fetch resolved;
\* ok/status: response.ok, response.status; parses: response.json() resolved;
\* hasChoices/choices: data.choices; a choice records whether it has a
\* message, whether the message has a string content, and the content.
Choice(hasMessage, hasContent, content) ==
    [hasMessage |-> hasMessage, hasContent |-> hasContent, content |-> content]

Remote(kind, net, ok, status, parses, hasChoices, choices) ==
    [kind |-> kind, net |-> net, ok |-> ok, status |-> status, parses |-> parses,
     hasChoices |-> hasChoices, choices |-> choices]

RemoteSummary == << << <<" ">>, 1 >>, << <<"s">>, 12 >>, << <<".">>, 1 >>, << <<"\n">>, 1 >> >>

RemoteOutcomes ==
    { Remote("network", FALSE, FALSE, 0, FALSE, FALSE, <<>>),
      Remote("http", TRUE, FALSE, 401, TRUE, FALSE, <<>>),
      Remote("http", TRUE, FALSE, 429, TRUE, FALSE, <<>>),
      Remote("http", TRUE, FALSE, 500, FALSE, FALSE, <<>>),
      Remote("unparsable", TRUE, TRUE, 200, FALSE, FALSE, <<>>),
      Remote("nochoices", TRUE, TRUE, 200, TRUE, FALSE, <<>>),
      Remote("emptychoices", TRUE, TRUE, 200, TRUE, TRUE, <<>>),
      Remote("nomessage", TRUE, TRUE, 200, TRUE, TRUE, <<Choice(FALSE, FALSE, <<>>)>>),
      Remote("nocontent", TRUE, TRUE, 200, TRUE, TRUE, <<Choice(TRUE, FALSE, <<>>)>>),
      Remote("success", TRUE, TRUE, 200, TRUE, TRUE, <<Choice(TRUE, TRUE, RemoteSummary)>>),
      Remote("success", TRUE, TRUE, 200, TRUE, TRUE,
             <<Choice(TRUE, TRUE, <<>>), Choice(FALSE, FALSE, <<>>)>>) }

Thrown == [threw |-> TRUE, value |-> <<>>]
Returned(value) == [threw |-> FALSE, value |-> value]

\* mutant: optional chaining, a missing message or content reads as ''
FirstContent_Lenient(choices) ==
    Returned(IF choices[1].hasMessage /\ choices[1].hasContent
             THEN Trim(choices[1].content) ELSE <<>>)

\* line 207: data.choices[0].message.content.trim(); reading .content of a
\* missing message, or .trim of a missing content, throws a TypeError
FirstContent(choices) ==
    IF choices[1].hasMessage /\ choices[1].hasContent
    THEN Returned(Trim(choices[1].content))
    ELSE Thrown

\* the try block, lines 180-210
TryRemote(remote) ==
    IF ~remote.net THEN Thrown
    ELSE IF ~remote.ok THEN Thrown
    ELSE IF ~remote.parses THEN Thrown
    ELSE IF remote.hasChoices /\ Len(remote.choices) > 0
    THEN FirstContent(remote.choices)
    ELSE Thrown

\* the catch block, lines 211-225: log, then fall back
CatchRemote(text, language, summaryLength) ==
    Returned(mockSummarization(text, language, summaryLength))

\* the value (or the exception) getSummaryFromAI ends with after fetch settled
AfterFetch(text, language, summaryLength, remote) ==
    IF TryRemote(remote).threw
    THEN CatchRemote(text, language, summaryLength)
    ELSE TryRemote(remote)

NoCall ==
    [state |-> "none", text |-> <<>>, language |-> "", summaryLength |-> "",
     fetches |-> 0, maxTokens |-> 0, outcome |-> "none", status |-> 0,
     threw |-> FALSE, result |-> <<>>]

\* getSummaryFromAI up to its first await: lines 158-197
StartCall(key, text, lang, len) ==
    LET language == Default(lang, "english")
        summaryLength == Default(len, "medium")
    IN IF NoCredential(key)
       THEN [NoCall EXCEPT !.state = "returned", !.text = text,
                           !.language = language, !.summaryLength = summaryLength,
                           !.outcome = "nokey",
                           !.result = mockSummarization(text, language, summaryLength)]
       ELSE [NoCall EXCEPT !.state = "fetching", !.text = text,
                           !.language = language, !.summaryLength = summaryLength,
                           !.fetches = 1, !.maxTokens = MaxTokens(summaryLength)]

\* getSummaryFromAI from the settled fetch to its end: lines 199-225
FinishCall(call, remote) ==
    LET r == AfterFetch(call.text, call.language, call.summaryLength, remote)
    IN [call EXCEPT !.state = "returned", !.outcome = remote.kind,
                    !.status = remote.status, !.threw = r.threw, !.result = r.value]

(***************************************************************************)
(* The multipart branch of the handler (lines 31-118)                      *)
(***************************************************************************)
\* line 38
MAX_FILE_SIZE == 10 * 1024 * 1024

\* parseInt(info.encoding) || 0  (line 42)
ParseIntOrZero(encoding) ==
    CASE encoding = "7bit" -> 7
      [] encoding = "8bit" -> 8
      [] encoding = "20000000bit" -> 20000000
      [] OTHER -> 0

\* path.extname(fileName).toLowerCase()  (line 85)
ExtName(fileName) ==
    CASE fileName \in {"notes.txt", "NOTES.TXT"} -> ".txt"
      [] fileName \in {"paper.pdf", "paper.PDF"} -> ".pdf"
      [] fileName \in {"cv.docx"} -> ".docx"
      [] fileName \in {"run.exe"} -> ".exe"
      [] OTHER -> ""

\* Buffer.concat(chunks)  (line 65)
RECURSIVE Concat(_)
Concat(chunks) == IF chunks = <<>> THEN <<>> ELSE Head(chunks) \o Concat(Tail(chunks))

\* fileData.toString('utf8') (line 100); the uploaded bytes are ASCII, one
\* character per byte
Utf8ToString(fileData) == fileData

NoUpload ==
    [piped |-> FALSE, fileSeen |-> FALSE, fileOpen |-> FALSE, fileEnded |-> FALSE,
     fileName |-> "", fileSize |-> 0, chunks |-> <<>>, events |-> 0,
     hasData |-> FALSE, fileData |-> <<>>]

\* line 153: error.message || 'Internal server error'
OuterCatch(message) ==
    ErrorResponse(500, IF message = "" THEN MsgInternal ELSE "", message)

\* line 114
FileCatch(message) == ErrorResponse(500, MsgFileError, message)

\* line 76
UploadErrorResponse(message) == ErrorResponse(500, MsgUploadError, message)

\* lines 47, 58
TooLargeResponse == ErrorResponse(413, MsgFileTooLarge, "")

\* lines 45, 56
OverSize(fileSize) == fileSize > MAX_FILE_SIZE

\* lines 88-103: the text of the file, a thrown parser error, or an
\* unsupported extension.  parsed is what pdfParse / mammoth answer.
Extracted(fileName, fileData, parsed) ==
    LET ext == ExtName(fileName) IN
    IF ext \in {".pdf", ".docx"}
    THEN [supported |-> TRUE, threw |-> parsed.threw, message |-> parsed.message,
          text |-> parsed.text]
    ELSE IF ext = ".txt"
    THEN [supported |-> TRUE, threw |-> FALSE, message |-> "",
          text |-> Utf8ToString(fileData)]
    ELSE [supported |-> FALSE, threw |-> FALSE, message |-> "", text |-> <<>>]

\* line 105
FileTooShort(textContent) == StrLen(textContent) = 0 \/ StrLen(Trim(textContent)) < 50

\* lines 80-107: the response the finish handler answers with before it
\* summarizes, or "none" (as a response of status 0)
FinishRejection(upload, parsed) ==
    LET x == Extracted(upload.fileName, upload.fileData, parsed) IN
    IF ~upload.hasData THEN ErrorResponse(400, MsgNoFile, "")
    ELSE IF x.threw THEN FileCatch(x.message)
    ELSE IF ~x.supported THEN ErrorResponse(400, MsgUnsupported, "")
    ELSE IF FileTooShort(x.text) THEN ErrorResponse(400, MsgFileTooShort, "")
    ELSE ErrorResponse(0, "none", "")

\* lines 111, 149 and the catch blocks around them: the response sent once
\* getSummaryFromAI has settled
Answer(branch, call) ==
    IF call.threw
    THEN (IF branch = "file" THEN FileCatch("rejected") ELSE OuterCatch("rejected"))
    ELSE SummaryResponse(call.result)

(***************************************************************************)
(* Inputs                                                                  *)
(***************************************************************************)
Chars(c, n) == << << <<c>>, n >> >>

ScriptBlock ==
    << << <<"<", "s", "c", "r", "i", "p", "t", ">">>, 1 >>,
       << <<"x">>, 3 >>,
       << <<"<", "/", "s", "c", "r", "i", "p", "t", ">">>, 1 >> >>

RECURSIVE Flatten(_)
Flatten(ps) == IF ps = <<>> THEN <<>> ELSE Head(ps) \o Flatten(Tail(ps))

\* every concatenation of at most n pieces
TextsOf(pieces, n) ==
    { Flatten(ps) : ps \in UNION { [1..k -> pieces] : k \in 0..n } }

MaxTextPieces == 3
MaxChunks == 2
MaxPieces == 6

\* texts a client posts as JSON
TextPieces ==
    { Chars("a", 1), Chars("a", 49), Chars("a", 10000), Chars(" ", 10001), ScriptBlock }

Bodies ==
    [text : {JUndefined, JNumber(0), JNumber(42)}
            \cup { JString(t) : t \in TextsOf(TextPieces, MaxTextPieces) },
     language : {Undefined, "french"},
     summaryLength : {Undefined, "short", "medium", "long", "tiny"}]

\* uploads
Chunks == { Chars("a", 30), Chars("a", 10001), Chars("a", 10485760) }
Encodings == {"7bit", "binary", "20000000bit"}
FileNames == {"notes.txt", "paper.PDF", "cv.docx", "run.exe"}
ParserAnswers ==
    { [threw |-> TRUE, message |-> "bad XRef entry", text |-> <<>>],
      [threw |-> FALSE, message |-> "", text |-> <<>>],
      [threw |-> FALSE, message |-> "", text |-> Chars("a", 60)],
      [threw |-> FALSE, message |-> "", text |-> Chars("a", 10001)] }
HeaderErrors == {"Multipart: Boundary not found"}
StreamErrors == {"Unexpected end of form"}

\* inputs of mockSummarization called on its own
MockPieces ==
    { << << <<" ">>, 1 >>, << <<"a">>, 1 >>, << <<".">>, 1 >> >>,
      << << <<"b">>, 160 >>, << <<"!">>, 1 >> >>,
      Chars("c", 3),
      Chars("?", 1) }
MockTiers == {"short", "medium", "long", "tiny"}

NoMock ==
    [text |-> <<>>, language |-> "english", summaryLength |-> "medium",
     called |-> FALSE, result |-> <<>>]

(***************************************************************************)
(* The server                                                              *)
(***************************************************************************)
NoBody == [text |-> JUndefined, language |-> Undefined, summaryLength |-> Undefined]

Init ==
    /\ apiKey \in {"", "sk-hackclub"}
    /\ pc = "idle"
    /\ path = "none"
    /\ body = NoBody
    /\ responses = <<>>
    /\ ai = NoCall
    /\ mp = NoUpload
    /\ mock = NoMock

\* POST /api/summarize with a JSON body: lines 120-149 up to the first await.
\* express.json() hands the handler an object as req.body, so the test of
\* line 124 never rejects.
JsonRequest(b) ==
    /\ pc = "idle"
    /\ path' = "json"
    /\ body' = b
    /\ IF TextRejection(b.text) # "none"
       THEN /\ responses' = <<ErrorResponse(400, TextRejection(b.text), "")>>
            /\ ai' = NoCall
            /\ pc' = "done"
       ELSE LET call == StartCall(apiKey, Sanitize(b.text.v), b.language, b.summaryLength)
            IN /\ ai' = call
               /\ IF call.state = "returned"
                  THEN responses' = <<Answer("json", call)>> /\ pc' = "done"
                  ELSE responses' = <<>> /\ pc' = "awaiting"
    /\ UNCHANGED <<apiKey, mp, mock>>

\* POST /api/summarize with a multipart content type: lines 31-39, 118;
\* Busboy() throws on a content type it cannot use, into the outer catch
MultipartRequest(headerError) ==
    /\ pc = "idle"
    /\ path' = "file"
    /\ IF headerError # ""
       THEN /\ responses' = <<OuterCatch(headerError)>>
            /\ pc' = "done"
            /\ mp' = NoUpload
       ELSE /\ responses' = <<>>
            /\ pc' = "parsing"
            /\ mp' = [NoUpload EXCEPT !.piped = TRUE]
    /\ UNCHANGED <<apiKey, body, ai, mock>>

\* busboy.on('file'): lines 40-67
BusboyFile(fileName, encoding) ==
    /\ pc = "parsing" /\ mp.piped /\ ~mp.fileSeen
    /\ IF OverSize(ParseIntOrZero(encoding))
       THEN /\ mp' = [mp EXCEPT !.fileSeen = TRUE, !.fileName = fileName,
                                !.fileSize = ParseIntOrZero(encoding),
                                !.piped = FALSE]
            /\ responses' = Append(responses, TooLargeResponse)
       ELSE /\ mp' = [mp EXCEPT !.fileSeen = TRUE, !.fileName = fileName,
                                !.fileSize = ParseIntOrZero(encoding),
                                !.fileOpen = TRUE]
            /\ UNCHANGED responses
    /\ UNCHANGED <<apiKey, pc, path, body, ai, mock>>

\* file.on('data'): lines 52-62.  Chunks the file stream has buffered keep
\* arriving after req.unpipe() and while the finish handler awaits.
FileData(chunk) ==
    /\ path = "file" /\ mp.fileOpen /\ ~mp.fileEnded
    /\ mp.events < MaxChunks
    /\ IF OverSize(mp.fileSize + StrLen(chunk))
       THEN /\ mp' = [mp EXCEPT !.fileSize = @ + StrLen(chunk), !.events = @ + 1,
                                !.piped = FALSE]
            /\ responses' = Append(responses, TooLargeResponse)
       ELSE /\ mp' = [mp EXCEPT !.fileSize = @ + StrLen(chunk), !.events = @ + 1,
                                !.chunks = Append(@, chunk)]
            /\ UNCHANGED responses
    /\ UNCHANGED <<apiKey, pc, path, body, ai, mock>>

\* file.on('end'): lines 64-66
FileEnd ==
    /\ path = "file" /\ mp.fileOpen /\ ~mp.fileEnded
    /\ mp' = [mp EXCEPT !.fileEnded = TRUE, !.hasData = TRUE,
                        !.fileData = Concat(mp.chunks)]
    /\ UNCHANGED <<apiKey, pc, path, body, responses, ai, mock>>

\* busboy.on('error'): lines 74-77; the pipe drops a destination that errs
BusboyError(message) ==
    /\ pc = "parsing" /\ mp.piped
    /\ responses' = Append(responses, UploadErrorResponse(message))
    /\ mp' = [mp EXCEPT !.piped = FALSE]
    /\ UNCHANGED <<apiKey, pc, path, body, ai, mock>>

\* busboy.on('finish'): lines 79-110 up to the await of getSummaryFromAI
BusboyFinish(parsed) ==
    /\ pc = "parsing" /\ mp.piped
    /\ mp' = [mp EXCEPT !.piped = FALSE]
    /\ IF FinishRejection(mp, parsed).status # 0
       THEN /\ responses' = Append(responses, FinishRejection(mp, parsed))
            /\ pc' = "done"
            /\ UNCHANGED ai
       ELSE LET text == Extracted(mp.fileName, mp.fileData, parsed).text
                call == StartCall(apiKey, text, Undefined, Undefined)
            IN /\ ai' = call
               /\ IF call.state = "returned"
                  THEN responses' = Append(responses, Answer("file", call))
                       /\ pc' = "done"
                  ELSE UNCHANGED responses /\ pc' = "awaiting"
    /\ UNCHANGED <<apiKey, path, body, mock>>

\* the fetch of line 182 settles; getSummaryFromAI runs to its end and the
\* handler that awaits it answers (lines 111, 149)
FetchSettles(remote) ==
    /\ pc = "awaiting" /\ ai.state = "fetching"
    /\ ai' = FinishCall(ai, remote)
    /\ responses' = Append(responses, Answer(path, FinishCall(ai, remote)))
    /\ pc' = "done"
    /\ UNCHANGED <<apiKey, path, body, mp, mock>>

\* the next request of the same process
NewRequest ==
    /\ pc # "awaiting" /\ responses # <<>>
    /\ pc' = "idle"
    /\ path' = "none"
    /\ body' = NoBody
    /\ responses' = <<>>
    /\ ai' = NoCall
    /\ mp' = NoUpload
    /\ UNCHANGED <<apiKey, mock>>

Next ==
    \/ \E b \in Bodies : JsonRequest(b)
    \/ \E e \in HeaderErrors \cup {""} : MultipartRequest(e)
    \/ \E f \in FileNames, e \in Encodings : BusboyFile(f, e)
    \/ \E c \in Chunks : FileData(c)
    \/ FileEnd
    \/ \E m \in StreamErrors : BusboyError(m)
    \/ \E p \in ParserAnswers : BusboyFinish(p)
    \/ \E r \in RemoteOutcomes : FetchSettles(r)
    \/ NewRequest

Spec == Init /\ [][Next]_vars

(***************************************************************************)
(* mockSummarization on its own                                            *)
(***************************************************************************)
InitMock ==
    /\ apiKey = ""
    /\ pc = "idle"
    /\ path = "none"
    /\ body = NoBody
    /\ responses = <<>>
    /\ ai = NoCall
    /\ mp = NoUpload
    /\ mock \in [text : TextsOf(MockPieces, MaxPieces), language : {"english"},
                 summaryLength : MockTiers, called : {FALSE}, result : {<<>>}]

MockCall ==
    /\ ~mock.called
    /\ mock' = [mock EXCEPT !.called = TRUE,
                  !.result = mockSummarization(mock.text, mock.language,
                                               mock.summaryLength)]
    /\ UNCHANGED <<apiKey, pc, path, body, responses, ai, mp>>

NextMock == MockCall

SpecMock == InitMock /\ [][NextMock]_vars

(***************************************************************************)
(* Properties                                                              *)
(***************************************************************************)
JsonText == body.text.v
JsonStringHandled == path = "json" /\ pc # "idle" /\ body.text.t = "string"
Sent(response) == \E i \in DOMAIN responses : responses[i] = response
RemoteFailures ==
    {"network", "http", "unparsable", "nochoices", "emptychoices", "nomessage",
     "nocontent"}
Fallback(call) == mockSummarization(call.text, call.language, call.summaryLength)

\* C1: with a credential configured, whenever the remote call fails (fetch
\* rejects, a non-success status such as 401, an unparsable body, no or an
\* empty choices array, a first choice without message.content),
\* getSummaryFromAI does not raise and returns exactly the fallback summary of
\* its text and tier, and the request is answered 200 with that summary.
C1_RemoteFailureFallsBack ==
    (apiKey # "" /\ ai.state = "returned" /\ ai.outcome \in RemoteFailures) =>
        /\ ~ai.threw
        /\ ai.result = Fallback(ai)
        /\ Sent(SummaryResponse(Fallback(ai)))
        /\ \A i \in DOMAIN responses : responses[i].status # 500

C1_Witness ==
    /\ apiKey # "" /\ path = "json" /\ ai.state = "returned"
    /\ ai.outcome = "http" /\ ai.status = 401
    /\ responses = <<SummaryResponse(Fallback(ai))>>

\* C2: with no credential configured, no call of getSummaryFromAI performs a
\* remote request and each returns the fallback summary of its text and tier;
\* no step of the process reassigns apiKey.
C2_NoCredentialNoRemote ==
    /\ [](apiKey = "" =>
            /\ ai.fetches = 0
            /\ ai.state # "fetching"
            /\ (ai.state = "returned" =>
                   /\ ai.outcome = "nokey"
                   /\ ai.result = Fallback(ai)
                   /\ Sent(SummaryResponse(Fallback(ai)))))
    /\ [][apiKey' = apiKey]_vars

C2_Witness ==
    /\ apiKey = "" /\ path = "json" /\ ai.state = "returned"
    /\ responses = <<SummaryResponse(Fallback(ai))>>

\* C3 as claimed: on the JSON text path every string whose original length
\* exceeds 10,000 characters is rejected with TooLong.
C3_OriginalLengthRejected ==
    (JsonStringHandled /\ StrLen(JsonText) > 10000) =>
        responses = <<ErrorResponse(400, MsgTooLong, "")>>

\* C3 as amended: on the JSON text path every string whose script-stripped
\* length exceeds 10,000 characters and whose script-stripped trimmed length
\* is at least 50 is rejected with TooLong, and nothing is summarized.
C3_SanitizedLengthRejected ==
    (/\ JsonStringHandled
     /\ StrLen(Sanitize(JsonText)) > 10000
     /\ StrLen(Trim(Sanitize(JsonText))) >= 50) =>
        /\ responses = <<ErrorResponse(400, MsgTooLong, "")>>
        /\ ai.state = "none"

C3_Witness ==
    /\ JsonStringHandled
    /\ StrLen(JsonText) > StrLen(Sanitize(JsonText))
    /\ StrLen(Sanitize(JsonText)) = 10001
    /\ responses = <<ErrorResponse(400, MsgTooLong, "")>>

\* C4 as claimed: on the JSON text path every string whose script-stripped,
\* trimmed length is below 50, the empty string included, is rejected with
\* TooShort and nothing is summarized.
C4_ShortRejectedTooShort ==
    (JsonStringHandled /\ StrLen(Trim(Sanitize(JsonText))) < 50) =>
        /\ responses = <<ErrorResponse(400, MsgTooShort, "")>>
        /\ ai.state = "none"

\* C4 as amended: on the JSON text path every non-empty string whose
\* script-stripped, trimmed length is below 50 is rejected with TooShort, the
\* empty string is rejected with the missing-text error, and in both cases
\* nothing is summarized.
C4_ShortRejected ==
    (JsonStringHandled /\ StrLen(Trim(Sanitize(JsonText))) < 50) =>
        /\ responses =
              <<ErrorResponse(400, IF StrLen(JsonText) = 0 THEN MsgNoText
                                   ELSE MsgTooShort, "")>>
        /\ ai.state = "none"

C4_Witness ==
    /\ JsonStringHandled
    /\ StrLen(JsonText) > 10000
    /\ StrLen(Trim(JsonText)) = 0
    /\ responses = <<ErrorResponse(400, MsgTooShort, "")>>

\* C5: every text that reaches getSummaryFromAI, on the JSON text path and on
\* the file-upload path, has trimmed length >= 50 and length <= 10,000.
C5_SummarizedTextInRange ==
    ai.state # "none" =>
        /\ StrLen(Trim(ai.text)) >= 50
        /\ StrLen(ai.text) <= 10000

\* the final ceiling of a tier, as the claims state it
FinalCeiling(tier) ==
    CASE tier = "short" -> 150
      [] tier = "long" -> 500
      [] OTHER -> 300

MockSentenceCount == Len(MatchSentences(mock.text))

\* C6: for every text and every tier (an unrecognised one counts as medium)
\* the string mockSummarization returns is at most the tier's final ceiling
\* (150, 300, 500) plus the 3 characters of the ellipsis long.
C6_LengthCeiling ==
    mock.called => StrLen(mock.result) <= FinalCeiling(mock.summaryLength) + 3

C6_Witness ==
    /\ mock.called
    /\ MockSentenceCount > 3
    /\ mock.summaryLength = "long"
    /\ StrLen(mock.result) = 503

\* C7: for every text, the empty string included, mockSummarization returns
\* a value, and it never returns the empty string: an empty summary is
\* replaced by the sentinel message.
C7_NeverEmpty ==
    mock.called => StrLen(mock.result) > 0

\* C8: every 500 response of POST /api/summarize carries a generic message
\* only, without the text of the internal exception.
C8_GenericServerError ==
    \A i \in DOMAIN responses :
        responses[i].status = 500 => responses[i].detail = ""

\* the positions the claims state for a tier, as a set
ExpectedIndices(n, tier) ==
    CASE tier = "short" -> {0}
      [] tier = "long" -> {0, n \div 4, n \div 2, (3 * n) \div 4, n - 1}
      [] OTHER -> {0, n \div 2, n - 1}

\* the elements of a set of numbers in ascending order
RECURSIVE Ascending(_)
Ascending(S) ==
    IF S = {} THEN <<>>
    ELSE LET least == CHOOSE x \in S : \A y \in S : x <= y
         IN <<least>> \o Ascending(S \ {least})

\* the segments at the expected positions, in their original order, trimmed,
\* the empty ones dropped, joined by one space
ExpectedJoin(sentences, tier) ==
    LET idx == Ascending(ExpectedIndices(Len(sentences), tier))
    IN Join(FilterNonEmpty([k \in DOMAIN idx |-> Trim(sentences[idx[k] + 1])]))

\* C9: with n > 3 segments mockSummarization picks by position only (short:
\* 0; medium: 0, n/2, n-1; long: 0, n/4, n/2, 3n/4, n-1, quotients rounded
\* down), picks every index once, and returns the picked segments in their
\* original order, trimmed and joined by one space (cut to the final ceiling
\* with an ellipsis when longer).
C9_PositionalSelection ==
    (mock.called /\ MockSentenceCount > 3) =>
        LET sentences == MatchSentences(mock.text)
            tier == mock.summaryLength
            picks == Picks(Len(sentences), tier)
            joined == ExpectedJoin(sentences, tier)
        IN /\ \A i, j \in DOMAIN picks : i < j => picks[i] < picks[j]
           /\ {picks[k] : k \in DOMAIN picks} = ExpectedIndices(Len(sentences), tier)
           /\ mock.result =
                 IF StrLen(joined) <= FinalCeiling(tier) THEN joined
                 ELSE Substring(joined, FinalCeiling(tier)) \o Ellipsis

C9_Witness ==
    /\ mock.called
    /\ MockSentenceCount = 4
    /\ mock.summaryLength = "long"
    /\ StrLen(mock.result) <= 500

\* C10: on the multipart upload path at most one response is sent per
\* request, whatever the order of the busboy events.
C10_AtMostOneResponse ==
    path = "file" => Len(responses) <= 1

====
